---- MODULE Spec2Model ----
(***************************************************************************)
(* Album-art finder (run.py): metadata normalisation, fuzzy matching of    *)
(* iTunes search results, the MQTT-driven artwork update and the HTTP      *)
(* endpoints that serve the artwork.                                       *)
(*                                                                         *)
(* Strings are sequences of one-character strings.  Ratios and scores are  *)
(* exact rationals <<numerator, denominator>>; the weights 0.6/0.3/0.1 and *)
(* 0.8/0.2 are kept as tenths, thresholds as hundredths.                   *)
(***************************************************************************)
EXTENDS Integers, Sequences, FiniteSets, TLC

----------------------------------------------------------------------------
(* Bounds of the model *)

\* longest result list one catalog search returns
MaxResults == 2
\* MQTT messages handled in one run
MaxMessages == 2
\* HTTP requests served in one run
MaxRequests == 1
\* last reading of time.time(), in ticks
MaxClock == 3

----------------------------------------------------------------------------
(* Text helpers *)

EmptyStr == <<>>

Truthy(s) == s # EmptyStr

LowerChar(c) ==
    CASE c = "A" -> "a"
      [] c = "B" -> "b"
      [] OTHER -> c

\* str.lower()
Lower(s) == [i \in 1..Len(s) |-> LowerChar(s[i])]

IsSpace(c) == c = " "

\* the characters _WORD_RE = [^a-z0-9]+ does not match
IsWordChar(c) == c \in {"a", "b", "c", "0", "1"}

RECURSIVE LStrip(_)
LStrip(s) ==
    IF s # <<>> /\ IsSpace(Head(s)) THEN LStrip(Tail(s)) ELSE s

RECURSIVE RStrip(_)
RStrip(s) ==
    IF s # <<>> /\ IsSpace(s[Len(s)]) THEN RStrip(SubSeq(s, 1, Len(s) - 1)) ELSE s

\* str.strip()
Strip(s) == RStrip(LStrip(s))

\* position of the first occurrence of c in s at or after from, 0 if none
FirstAt(s, c, from) ==
    IF \E j \in from..Len(s) : s[j] = c
    THEN CHOOSE j \in from..Len(s) :
            /\ s[j] = c
            /\ \A k \in from..(j - 1) : s[k] # c
    ELSE 0

\* re.sub(r"\(.*?\)|\[.*?\]", "", s): leftmost, non-greedy, non-overlapping
RECURSIVE DropBracketed(_)
DropBracketed(s) ==
    IF s = <<>> THEN <<>>
    ELSE IF Head(s) = "(" /\ FirstAt(s, ")", 2) # 0
    THEN DropBracketed(SubSeq(s, FirstAt(s, ")", 2) + 1, Len(s)))
    ELSE IF Head(s) = "[" /\ FirstAt(s, "]", 2) # 0
    THEN DropBracketed(SubSeq(s, FirstAt(s, "]", 2) + 1, Len(s)))
    ELSE <<Head(s)>> \o DropBracketed(Tail(s))

RECURSIVE SkipNonWord(_)
SkipNonWord(s) ==
    IF s # <<>> /\ ~IsWordChar(Head(s)) THEN SkipNonWord(Tail(s)) ELSE s

\* _WORD_RE.sub(" ", s): every maximal run of non [a-z0-9] becomes one space
RECURSIVE WordSub(_)
WordSub(s) ==
    IF s = <<>> THEN <<>>
    ELSE IF IsWordChar(Head(s)) THEN <<Head(s)>> \o WordSub(Tail(s))
    ELSE <<" ">> \o WordSub(SkipNonWord(s))

\* s.split(): the whitespace-separated words of s
RECURSIVE Split(_, _)
Split(s, word) ==
    IF s = <<>> THEN (IF word = <<>> THEN <<>> ELSE <<word>>)
    ELSE IF IsSpace(Head(s))
    THEN (IF word = <<>> THEN <<>> ELSE <<word>>) \o Split(Tail(s), <<>>)
    ELSE Split(Tail(s), Append(word, Head(s)))

\* " ".join(words)
RECURSIVE Join(_)
Join(words) ==
    IF words = <<>> THEN <<>>
    ELSE IF Len(words) = 1 THEN Head(words)
    ELSE Head(words) \o <<" ">> \o Join(Tail(words))

\* _norm: "" for None/empty, else lower, strip, drop bracketed, word-sub, re-join
Norm(s) ==
    IF ~Truthy(s) THEN EmptyStr
    ELSE Join(Split(WordSub(DropBracketed(Strip(Lower(s)))), <<>>))

\* Python's "a in b" for strings
IsSubstring(a, b) ==
    \E i \in 0..(Len(b) - Len(a)) : SubSeq(b, i + 1, i + Len(a)) = a

----------------------------------------------------------------------------
(* difflib.SequenceMatcher(None, a, b).ratio() *)

\* length of the common run starting at a[i], b[j] inside the windows
RECURSIVE RunLen(_, _, _, _, _, _)
RunLen(a, b, i, j, ahi, bhi) ==
    IF i <= ahi /\ j <= bhi /\ a[i] = b[j]
    THEN 1 + RunLen(a, b, i + 1, j + 1, ahi, bhi)
    ELSE 0

\* find_longest_match: the longest block, earliest in a, then earliest in b
LongestMatch(a, b, alo, ahi, blo, bhi) ==
    LET cands == {<<i, j>> : i \in alo..ahi, j \in blo..bhi}
        len(p) == RunLen(a, b, p[1], p[2], ahi, bhi)
        best == CHOOSE p \in cands :
                    \A q \in cands :
                        \/ len(p) > len(q)
                        \/ /\ len(p) = len(q)
                           /\ \/ p[1] < q[1]
                              \/ p[1] = q[1] /\ p[2] <= q[2]
    IN  IF cands = {} THEN <<alo, blo, 0>>
        ELSE <<best[1], best[2], len(best)>>

\* get_matching_blocks: total size of the matching blocks in the windows
RECURSIVE Matches(_, _, _, _, _, _)
Matches(a, b, alo, ahi, blo, bhi) ==
    LET m == LongestMatch(a, b, alo, ahi, blo, bhi)
    IN  IF m[3] = 0 THEN 0
        ELSE m[3]
             + Matches(a, b, alo, m[1] - 1, blo, m[2] - 1)
             + Matches(a, b, m[1] + m[3], ahi, m[2] + m[3], bhi)

\* _ratio: 0.0 when either string is empty, else 2*M/T
Ratio(a, b) ==
    IF ~Truthy(a) \/ ~Truthy(b) THEN <<0, 1>>
    ELSE <<2 * Matches(a, b, 1, Len(a), 1, Len(b)), Len(a) + Len(b)>>

----------------------------------------------------------------------------
(* Rational arithmetic for ratios and scores *)

RatLess(x, y) == x[1] * y[2] < y[1] * x[2]

RatGreater(x, y) == RatLess(y, x)

RatEqual(x, y) == x[1] * y[2] = y[1] * x[2]

\* ratio < pct/100
BelowThreshold(r, pct) == r[1] * 100 < pct * r[2]

\* (w1*r1 + w2*r2 + w3*r3) / 10
Weighted(w1, r1, w2, r2, w3, r3) ==
    << w1 * r1[1] * r2[2] * r3[2]
         + w2 * r2[1] * r1[2] * r3[2]
         + w3 * r3[1] * r1[2] * r2[2],
       10 * r1[2] * r2[2] * r3[2] >>

----------------------------------------------------------------------------
(* Inputs: MQTT payloads, catalog records, network outcomes *)

ArtistInputs == { <<>>, <<"A", "b">>, <<"(", "a", ")">> }

TitleInputs == { <<>>, <<"a", "-", "b">> }

AlbumInputs == { <<>>, <<"b", "a", " ", "[", "c", "]">> }

StateInputs == { "playing", "Paused", "idle" }

\* JSON objects published on the topic
Metas ==
    [state : StateInputs, title : TitleInputs, artist : ArtistInputs,
     album : AlbumInputs]

\* payloads json.loads rejects, or that are not objects
BadPayloads == { "invalid_json", "not_object" }

Rec(t, c, a, u100, u60) ==
    [trackName |-> t, collectionName |-> c, artistName |-> a,
     artworkUrl100 |-> u100, artworkUrl60 |-> u60]

\* iTunes result dicts; a missing key is the empty string
Catalog ==
    { Rec(<<"a", " ", "b">>, <<"B", "a">>, <<"a", "b">>, "art/100x100", "art/60x60"),
      Rec(<<"A", " ", "b">>, <<"b", "a">>, <<"b", "a">>, "", "art/60x60"),
      Rec(<<>>, <<"b">>, <<>>, "", ""),
      Rec(<<"c">>, <<"(", "b", ")", "c">>, <<"a">>, "art/100x100", ""),
      Rec(<<"c">>, <<>>, <<"c">>, "", "art/60x60") }

RECURSIVE SeqsUpTo(_, _)
SeqsUpTo(S, n) ==
    IF n = 0 THEN { <<>> }
    ELSE LET shorter == SeqsUpTo(S, n - 1)
         IN  shorter \cup { Append(q, x) : q \in shorter, x \in S }

ResultLists == SeqsUpTo(Catalog, MaxResults)

\* what one GET https://itunes.apple.com/search can come back with
SearchOutcomes ==
    [kind : { "network_error", "http_error", "bad_json", "not_object" },
     results : { <<>> }]
    \cup [kind : { "ok" }, results : ResultLists]
    \cup [kind : { "no_results_key" }, results : { <<>> }]

\* what the artwork download can come back with
FetchOutcomes ==
    { "image", "non_image", "empty_body", "http_error", "network_error" }

\* configured thresholds, in hundredths (MIN_TITLE_RATIO, MIN_ALBUM_RATIO)
TitleRatioChoices == { 0, 55 }

AlbumRatioChoices == { 55 }

----------------------------------------------------------------------------
(* State *)

VARIABLES
    \* configuration read at start-up
    REQUIRE_ARTIST_MATCH, PREFER_ALBUM_WHEN_NO_ARTIST,
    MIN_TITLE_RATIO, MIN_ALBUM_RATIO,
    \* shared between the MQTT thread and the HTTP threads
    albumart,        \* the file at ALBUMART_PATH
    tmpfile,         \* the file at ALBUMART_PATH.with_suffix(".jpg.tmp")
    latest_meta,     \* _latest_meta
    last_update_ts,  \* _last_update_ts
    clock,           \* time.time(), in ticks
    \* the MQTT thread: on_message -> update_art_from_meta -> find_album_art
    pc, meta, n_artist, n_title, n_album, queries, qi, results, ri, best,
    art_bytes, ret, msgs,
    \* what the MQTT thread has done so far in the current call
    issued,          \* query types searched, in order
    outcome,         \* kind of the last search outcome
    max_survivor,    \* highest score among the candidates that passed every filter
    fetches,         \* artwork downloads requested in the current call
    pre,             \* shared state when the current call began
    \* one HTTP request handler; held is what it read in its first step
    http, held, response, reqs

cfgVars == <<REQUIRE_ARTIST_MATCH, PREFER_ALBUM_WHEN_NO_ARTIST,
             MIN_TITLE_RATIO, MIN_ALBUM_RATIO>>

sharedVars == <<albumart, tmpfile, latest_meta, last_update_ts>>

findVars == <<n_artist, n_title, n_album, queries, qi, results, ri, best,
              issued, outcome, max_survivor, fetches>>

localVars == <<n_artist, n_title, n_album, queries, qi, results, ri, best,
               issued, outcome, max_survivor>>

mqttVars == <<pc, meta, art_bytes, ret, msgs, pre>>

httpVars == <<http, held, response, reqs>>

vars == <<cfgVars, sharedVars, clock, findVars, mqttVars, httpVars>>

----------------------------------------------------------------------------
(* find_album_art: query construction *)

Query(term, entity, qtype) == [term |-> term, entity |-> entity, qtype |-> qtype]

\* "x if c else nothing" for list building
When(c, q) == IF c THEN <<q>> ELSE <<>>

\* slip: the first album_only test without "not n_artist"
BuildQueries_NoArtistTest(artist, title, album, prefer) ==
    LET na == Norm(artist)
        nt == Norm(title)
        nb == Norm(album)
    IN  When(Truthy(na) /\ Truthy(nt),
             Query(artist \o <<" ">> \o title, "song", "artist_title"))
        \o When(Truthy(na) /\ Truthy(nb),
                Query(artist \o <<" ">> \o album, "album", "artist_album"))
        \o When(Truthy(nb) /\ prefer,
                Query(album, "album", "album_only"))
        \o When(Truthy(nt), Query(title, "song", "title_only"))
        \o When(Truthy(nb) /\ (Truthy(na) \/ ~prefer),
                Query(album, "album", "album_only"))

\* slip: the last album_only test with "PREFER" for "not PREFER"
BuildQueries_PreferSlip(artist, title, album, prefer) ==
    LET na == Norm(artist)
        nt == Norm(title)
        nb == Norm(album)
    IN  When(Truthy(na) /\ Truthy(nt),
             Query(artist \o <<" ">> \o title, "song", "artist_title"))
        \o When(Truthy(na) /\ Truthy(nb),
                Query(artist \o <<" ">> \o album, "album", "artist_album"))
        \o When(~Truthy(na) /\ Truthy(nb) /\ prefer,
                Query(album, "album", "album_only"))
        \o When(Truthy(nt), Query(title, "song", "title_only"))
        \o When(Truthy(nb) /\ (Truthy(na) \/ prefer),
                Query(album, "album", "album_only"))

\* the queries list of find_album_art, built from the raw and normalised fields
BuildQueries(artist, title, album, prefer) ==
    LET na == Norm(artist)
        nt == Norm(title)
        nb == Norm(album)
    IN  When(Truthy(na) /\ Truthy(nt),
             Query(artist \o <<" ">> \o title, "song", "artist_title"))
        \o When(Truthy(na) /\ Truthy(nb),
                Query(artist \o <<" ">> \o album, "album", "artist_album"))
        \o When(~Truthy(na) /\ Truthy(nb) /\ prefer,
                Query(album, "album", "album_only"))
        \o When(Truthy(nt), Query(title, "song", "title_only"))
        \o When(Truthy(nb) /\ (Truthy(na) \/ ~prefer),
                Query(album, "album", "album_only"))

----------------------------------------------------------------------------
(* _search_itunes *)

\* the statements of the try block that raise for this outcome
SearchRaises(o) ==
    o.kind \in { "network_error", "http_error", "bad_json", "not_object" }

\* slip: "except requests.RequestException", which lets the AttributeError
\* of a non-object body through
SearchItunes_Narrow(o) ==
    IF o.kind = "not_object"
    THEN [raised |-> TRUE, value |-> <<>>]
    ELSE IF SearchRaises(o)
    THEN [raised |-> FALSE, value |-> <<>>]
    ELSE [raised |-> FALSE, value |-> o.results]

\* every Exception is caught and turned into []; nothing propagates
SearchItunes(o) ==
    IF SearchRaises(o)
    THEN [raised |-> FALSE, value |-> <<>>]
    ELSE [raised |-> FALSE, value |-> o.results]

----------------------------------------------------------------------------
(* find_album_art: scoring one result *)

NoBest == <<>>

\* no candidate has passed the filters yet
NoScore == <<>>

\* the larger of a recorded maximum and a new score
MaxScore(m, score) ==
    IF m = NoScore THEN score
    ELSE IF RatLess(m, score) THEN score ELSE m

\* r.get(k1) or r.get(k2)
Or(x, y) == IF Truthy(x) THEN x ELSE y

ItTitle(r) == Norm(Or(r.trackName, r.collectionName))

ItAlbum(r) == Norm(r.collectionName)

ItArtist(r) == Norm(r.artistName)

\* slip: "in" for "not in" in the second containment test
ArtistSkip_OneWay(require, nartist, it_artist) ==
    /\ require
    /\ Truthy(nartist)
    /\ Truthy(it_artist)
    /\ ~IsSubstring(nartist, it_artist)
    /\ IsSubstring(it_artist, nartist)

\* the artist constraint: TRUE when the result is skipped
ArtistSkip(require, nartist, it_artist) ==
    /\ require
    /\ Truthy(nartist)
    /\ Truthy(it_artist)
    /\ ~IsSubstring(nartist, it_artist)
    /\ ~IsSubstring(it_artist, nartist)

\* the base score by query type
Score(qtype, t_ratio, a_ratio, ar_ratio) ==
    CASE qtype = "artist_title" -> Weighted(6, t_ratio, 3, ar_ratio, 1, a_ratio)
      [] qtype = "artist_album" -> Weighted(6, a_ratio, 3, ar_ratio, 1, t_ratio)
      [] qtype = "title_only" -> Weighted(8, t_ratio, 2, a_ratio, 0, <<0, 1>>)
      [] OTHER -> Weighted(8, a_ratio, 2, t_ratio, 0, <<0, 1>>)

\* slip: the exemption given to title_only instead of album_only
TitleSkip_WrongType(qtype, ntitle, t_ratio, minTitle) ==
    Truthy(ntitle) /\ BelowThreshold(t_ratio, minTitle) /\ qtype # "title_only"

\* the title threshold filter: TRUE when the result is skipped
TitleSkip(qtype, ntitle, t_ratio, minTitle) ==
    Truthy(ntitle) /\ BelowThreshold(t_ratio, minTitle) /\ qtype # "album_only"

\* the album threshold filter: TRUE when the result is skipped
AlbumSkip(qtype, nalbum, a_ratio, minAlbum) ==
    Truthy(nalbum) /\ BelowThreshold(a_ratio, minAlbum) /\ qtype # "title_only"

\* slip: "<" for ">"
TrackBest_Lt(b, score, r) ==
    IF b = NoBest \/ RatLess(score, b[1]) THEN <<score, r>> ELSE b

\* slip: ">=" for ">"
TrackBest_Ge(b, score, r) ==
    IF b = NoBest \/ ~RatLess(score, b[1]) THEN <<score, r>> ELSE b

\* "if not best or score > best[0]: best = (score, r)"
TrackBest(b, score, r) ==
    IF b = NoBest \/ RatGreater(score, b[1]) THEN <<score, r>> ELSE b

----------------------------------------------------------------------------
(* find_album_art: resolution *)

\* r.get("artworkUrl100") or r.get("artworkUrl60")
ArtUrl(r) == IF r.artworkUrl100 # "" THEN r.artworkUrl100 ELSE r.artworkUrl60

\* art.replace("100x100", "600x600")
UpgradeUrl(u) == IF u = "art/100x100" THEN "art/600x600" ELSE u

\* the bytes find_album_art returns for a download outcome, "" for None
\* slip: a default artwork URL when there is no best
ArtToFetch_Default(b) ==
    IF b = NoBest THEN "art/600x600" ELSE UpgradeUrl(ArtUrl(b[2]))

\* "if not best: return None", else the upgraded artwork URL ("" when missing)
ArtToFetch(b) ==
    IF b = NoBest THEN "" ELSE UpgradeUrl(ArtUrl(b[2]))

NoBytes == <<>>

\* the bytes find_album_art returns for a download outcome, NoBytes for None
FetchedBytes(o, content) ==
    IF o = "image" THEN content ELSE NoBytes

----------------------------------------------------------------------------
(* Shared state *)

\* _PLACEHOLDER_JPEG, written when the file does not exist
Placeholder == [content |-> <<0>>, complete |-> TRUE]

NoFile == [content |-> <<>>, complete |-> TRUE]

\* _latest_meta = {}
EmptyMeta ==
    [set |-> FALSE, state |-> "", title |-> <<>>, artist |-> <<>>,
     album |-> <<>>, updated |-> 0, by |-> 0]

\* _last_update_ts = 0.0; "by" is the message whose update wrote it
InitialTs == [t |-> 0, by |-> 0]

\* str(int(_last_update_ts)), with two ticks to the second
ETag(ts) == ts.t \div 2

\* (meta.get("state") or "").lower()
StateLower(st) ==
    CASE st = "Paused" -> "paused"
      [] OTHER -> st

Snapshot == [albumart |-> albumart, latest_meta |-> latest_meta,
             last_update_ts |-> last_update_ts]

NoResponse == [kind |-> "none"]

\* the locals of find_album_art are gone once it has returned
ResetLocals ==
    /\ n_artist' = <<>> /\ n_title' = <<>> /\ n_album' = <<>>
    /\ queries' = <<>> /\ qi' = 1 /\ results' = <<>> /\ ri' = 1 /\ best' = NoBest
    /\ issued' = <<>> /\ outcome' = "none" /\ max_survivor' = NoScore

FreshLocals ==
    /\ n_artist = <<>> /\ n_title = <<>> /\ n_album = <<>>
    /\ queries = <<>> /\ qi = 1 /\ results = <<>> /\ ri = 1 /\ best = NoBest
    /\ issued = <<>> /\ outcome = "none" /\ max_survivor = NoScore

\* the configuration the environment can set
ConfigInit ==
    /\ REQUIRE_ARTIST_MATCH \in BOOLEAN
    /\ PREFER_ALBUM_WHEN_NO_ARTIST \in BOOLEAN
    /\ MIN_TITLE_RATIO \in TitleRatioChoices
    /\ MIN_ALBUM_RATIO \in AlbumRatioChoices

\* the module-level state once run.py is loaded and both threads are started
StartInit ==
    /\ albumart = Placeholder
    /\ tmpfile = NoFile
    /\ latest_meta = EmptyMeta
    /\ last_update_ts = InitialTs
    /\ clock = 2
    /\ FreshLocals
    /\ art_bytes = NoBytes
    /\ ret = "none"
    /\ fetches = 0
    /\ pre = Snapshot
    /\ http = "idle" /\ held = NoFile /\ response = NoResponse /\ reqs = 0

\* the service after start-up, waiting for its first message
Init ==
    /\ ConfigInit
    /\ StartInit
    /\ pc = "idle"
    /\ meta = EmptyMeta
    /\ msgs = 0

----------------------------------------------------------------------------
(* The MQTT thread *)

\* update_art_from_meta returns v to on_message, which waits for the next message
Return(v) ==
    /\ ret' = v
    /\ pc' = "idle"
    /\ art_bytes' = NoBytes
    /\ ResetLocals

\* on_message with a payload that is not a JSON object: logged, nothing else
OnBadMessage ==
    /\ pc = "idle"
    /\ msgs < MaxMessages
    /\ \E p \in BadPayloads :
        /\ msgs' = msgs + 1
        /\ ret' = "none"
        /\ UNCHANGED <<cfgVars, sharedVars, clock, findVars, pc, meta,
                       art_bytes, pre, httpVars>>

\* slip: the playback state is not checked
UpdateArtFromMeta_NoStateCheck(m) ==
    /\ pre' = Snapshot
    /\ fetches' = 0
    /\ n_artist' = Norm(m.artist)
    /\ n_title' = Norm(m.title)
    /\ n_album' = Norm(m.album)
    /\ queries' = BuildQueries(m.artist, m.title, m.album,
                               PREFER_ALBUM_WHEN_NO_ARTIST)
    /\ qi' = 1 /\ results' = <<>> /\ ri' = 1 /\ best' = NoBest
    /\ issued' = <<>> /\ outcome' = "none" /\ max_survivor' = NoScore
    /\ art_bytes' = NoBytes
    /\ ret' = "none"
    /\ pc' = "loop"

\* update_art_from_meta(m) up to the first search of find_album_art
UpdateArtFromMeta(m) ==
    /\ pre' = Snapshot
    /\ fetches' = 0
    /\ IF m.state \notin { "playing", "paused" }
       THEN Return("False")
       ELSE /\ n_artist' = Norm(m.artist)
            /\ n_title' = Norm(m.title)
            /\ n_album' = Norm(m.album)
            /\ queries' = BuildQueries(m.artist, m.title, m.album,
                                       PREFER_ALBUM_WHEN_NO_ARTIST)
            /\ qi' = 1 /\ results' = <<>> /\ ri' = 1 /\ best' = NoBest
            /\ issued' = <<>> /\ outcome' = "none" /\ max_survivor' = NoScore
            /\ art_bytes' = NoBytes
            /\ ret' = "none"
            /\ pc' = "loop"

\* the fields update_art_from_meta reads from the payload
MetaOf(m, k) ==
    [set |-> TRUE, state |-> StateLower(m.state), title |-> m.title,
     artist |-> m.artist, album |-> m.album, updated |-> 0, by |-> k]

\* on_message with a JSON object drawn from feed
OnMessage(feed) ==
    /\ pc = "idle"
    /\ msgs < MaxMessages
    /\ \E m \in feed :
        /\ msgs' = msgs + 1
        /\ meta' = MetaOf(m, msgs + 1)
        /\ UpdateArtFromMeta(MetaOf(m, msgs + 1))
    /\ UNCHANGED <<cfgVars, sharedVars, clock, httpVars>>

\* the for loop takes the next query and sends its search request
StartSearch ==
    /\ pc = "loop"
    /\ qi <= Len(queries)
    /\ issued' = Append(issued, queries[qi].qtype)
    /\ pc' = "searching"
    /\ UNCHANGED <<cfgVars, sharedVars, clock, n_artist, n_title, n_album,
                   queries, qi, results, ri, best, outcome, max_survivor, fetches,
                   meta, art_bytes, ret, msgs, pre, httpVars>>

\* _search_itunes returns (or an exception leaves find_album_art)
SearchReturns(outcomes) ==
    /\ pc = "searching"
    /\ \E o \in outcomes :
        LET got == SearchItunes(o)
        IN  IF got.raised
            THEN \* propagates to on_message's "except Exception"
                 /\ ret' = "raised"
                 /\ pc' = "idle"
                 /\ art_bytes' = NoBytes
                 /\ ResetLocals
            ELSE /\ outcome' = o.kind
                 /\ IF got.value = <<>>
                    THEN results' = <<>> /\ qi' = qi + 1 /\ pc' = "loop"
                    ELSE results' = got.value /\ qi' = qi /\ pc' = "score"
                 /\ ri' = 1
                 /\ UNCHANGED <<n_artist, n_title, n_album, queries, best,
                                issued, max_survivor, art_bytes, ret>>
    /\ UNCHANGED <<cfgVars, sharedVars, clock, fetches, meta, msgs, pre, httpVars>>

\* one pass of "for r in results"
ScoreCandidate ==
    /\ pc = "score"
    /\ ri <= Len(results)
    /\ LET r == results[ri]
           qtype == queries[qi].qtype
           it_title == ItTitle(r)
           it_album == ItAlbum(r)
           it_artist == ItArtist(r)
           t_ratio == Ratio(n_title, it_title)
           a_ratio == Ratio(n_album, it_album)
           ar_ratio == Ratio(n_artist, it_artist)
           score == Score(qtype, t_ratio, a_ratio, ar_ratio)
           skip == \/ ArtistSkip(REQUIRE_ARTIST_MATCH, n_artist, it_artist)
                   \/ TitleSkip(qtype, n_title, t_ratio, MIN_TITLE_RATIO)
                   \/ AlbumSkip(qtype, n_album, a_ratio, MIN_ALBUM_RATIO)
       IN  /\ best' = IF skip THEN best ELSE TrackBest(best, score, r)
           /\ max_survivor' = IF skip THEN max_survivor ELSE MaxScore(max_survivor, score)
    /\ IF ri = Len(results)
       THEN results' = <<>> /\ ri' = 1 /\ qi' = qi + 1 /\ pc' = "loop"
       ELSE results' = results /\ ri' = ri + 1 /\ qi' = qi /\ pc' = "score"
    /\ UNCHANGED <<cfgVars, sharedVars, clock, n_artist, n_title, n_album,
                   queries, issued, outcome, fetches,
                   meta, art_bytes, ret, msgs, pre, httpVars>>

\* after the loop: no best or no artwork URL returns None, else the download starts
Resolve ==
    /\ pc = "loop"
    /\ qi > Len(queries)
    /\ IF ArtToFetch(best) = ""
       THEN Return("False") /\ fetches' = fetches
       ELSE /\ fetches' = fetches + 1
            /\ pc' = "fetching"
            /\ UNCHANGED <<n_artist, n_title, n_album, queries, qi, results, ri,
                           best, issued, outcome, max_survivor, art_bytes, ret>>
    /\ UNCHANGED <<cfgVars, sharedVars, clock, meta, msgs, pre, httpVars>>

\* the download returns; find_album_art returns bytes or None to update_art_from_meta
FetchReturns ==
    /\ pc = "fetching"
    /\ \E o \in FetchOutcomes :
        IF FetchedBytes(o, <<msgs>>) = NoBytes
        THEN Return("False")
        ELSE /\ art_bytes' = FetchedBytes(o, <<msgs>>)
             /\ pc' = "write_tmp"
             /\ ret' = ret
             /\ ResetLocals
    /\ UNCHANGED <<cfgVars, sharedVars, clock, fetches, meta, msgs, pre, httpVars>>

\* tmp_path.write_bytes: the file is opened (truncated) and filled
WriteTmpOpen ==
    /\ pc = "write_tmp"
    /\ tmpfile' = [content |-> art_bytes, complete |-> FALSE]
    /\ pc' = "write_tmp_end"
    /\ UNCHANGED <<cfgVars, albumart, latest_meta, last_update_ts, clock,
                   findVars, meta, art_bytes, ret, msgs, pre, httpVars>>

WriteTmpClose ==
    /\ pc = "write_tmp_end"
    /\ tmpfile' = [content |-> art_bytes, complete |-> TRUE]
    /\ pc' = "replace"
    /\ UNCHANGED <<cfgVars, albumart, latest_meta, last_update_ts, clock,
                   findVars, meta, art_bytes, ret, msgs, pre, httpVars>>

\* tmp_path.replace(ALBUMART_PATH): an atomic rename
Replace ==
    /\ pc = "replace"
    /\ albumart' = tmpfile
    /\ tmpfile' = NoFile
    /\ pc' = "set_meta"
    /\ UNCHANGED <<cfgVars, latest_meta, last_update_ts, clock,
                   findVars, meta, art_bytes, ret, msgs, pre, httpVars>>

\* _latest_meta = {...}, "updated": time.time()
SetMeta ==
    /\ pc = "set_meta"
    /\ \E t \in clock..MaxClock :
        /\ clock' = t
        /\ latest_meta' = [meta EXCEPT !.updated = t]
    /\ pc' = "set_ts"
    /\ UNCHANGED <<cfgVars, albumart, tmpfile, last_update_ts,
                   findVars, meta, art_bytes, ret, msgs, pre, httpVars>>

\* _last_update_ts = time.time(); return True
SetTs ==
    /\ pc = "set_ts"
    /\ \E t \in clock..MaxClock :
        /\ clock' = t
        /\ last_update_ts' = [t |-> t, by |-> msgs]
    /\ Return("True")
    /\ UNCHANGED <<cfgVars, albumart, tmpfile, latest_meta,
                   fetches, meta, msgs, pre, httpVars>>

----------------------------------------------------------------------------
(* The HTTP threads *)

\* serve_album_art: send_file opens the file at ALBUMART_PATH
ServeOpen ==
    /\ http = "idle"
    /\ reqs < MaxRequests
    /\ held' = albumart
    /\ http' = "art_opened"
    /\ UNCHANGED <<cfgVars, sharedVars, clock, findVars, mqttVars, response, reqs>>

\* serve_album_art: the ETag header is read from _last_update_ts, the body
\* is the file that was opened
ServeRespond ==
    /\ http = "art_opened"
    /\ response' = [kind |-> "art", body |-> held, etag |-> ETag(last_update_ts),
                    ts_by |-> last_update_ts.by]
    /\ held' = NoFile
    /\ http' = "idle"
    /\ reqs' = reqs + 1
    /\ UNCHANGED <<cfgVars, sharedVars, clock, findVars, mqttVars>>

\* status: "last_update_epoch": _last_update_ts is evaluated first
StatusReadTs ==
    /\ http = "idle"
    /\ reqs < MaxRequests
    /\ held' = [content |-> <<last_update_ts>>, complete |-> TRUE]
    /\ http' = "status_ts_read"
    /\ UNCHANGED <<cfgVars, sharedVars, clock, findVars, mqttVars, response, reqs>>

\* status: "meta": _latest_meta is evaluated next, then the JSON is sent
StatusRespond ==
    /\ http = "status_ts_read"
    /\ response' = [kind |-> "status", last_update_epoch |-> held.content[1],
                    meta |-> latest_meta]
    /\ held' = NoFile
    /\ http' = "idle"
    /\ reqs' = reqs + 1
    /\ UNCHANGED <<cfgVars, sharedVars, clock, findVars, mqttVars>>

----------------------------------------------------------------------------
(* Specifications *)

\* the payloads of the call: every field combination, playing or not
CallFeed == Metas

\* one call of update_art_from_meta, with every input the matcher distinguishes
CallInit ==
    /\ ConfigInit
    /\ StartInit
    /\ pc = "called"
    /\ msgs = 1
    /\ meta \in { MetaOf(m, 1) : m \in CallFeed }

\* on_message hands the decoded payload to update_art_from_meta
Call ==
    /\ pc = "called"
    /\ UpdateArtFromMeta(meta)
    /\ UNCHANGED <<cfgVars, sharedVars, clock, meta, msgs, httpVars>>

CallNext ==
    \/ Call
    \/ StartSearch
    \/ SearchReturns(SearchOutcomes)
    \/ ScoreCandidate
    \/ Resolve
    \/ FetchReturns
    \/ WriteTmpOpen
    \/ WriteTmpClose
    \/ Replace
    \/ SetMeta
    \/ SetTs

Spec == CallInit /\ [][CallNext]_vars

\* what the broker publishes and the catalog answers while the service runs
ServerFeed ==
    { m \in Metas : m.artist = <<>> /\ m.album = <<>> /\ m.title # <<>> }

ServerOutcomes ==
    { o \in SearchOutcomes :
        \/ o.kind = "network_error"
        \/ o.kind = "ok" /\ Len(o.results) = 1 }

\* the service with its default configuration
ServerInit ==
    /\ Init
    /\ ~REQUIRE_ARTIST_MATCH
    /\ PREFER_ALBUM_WHEN_NO_ARTIST
    /\ MIN_TITLE_RATIO = 55
    /\ MIN_ALBUM_RATIO = 55

Next ==
    \/ OnBadMessage
    \/ OnMessage(ServerFeed)
    \/ StartSearch
    \/ SearchReturns(ServerOutcomes)
    \/ ScoreCandidate
    \/ Resolve
    \/ FetchReturns
    \/ WriteTmpOpen
    \/ WriteTmpClose
    \/ Replace
    \/ SetMeta
    \/ SetTs
    \/ ServeOpen
    \/ ServeRespond
    \/ StatusReadTs
    \/ StatusRespond

SpecServer == ServerInit /\ [][Next]_vars

----------------------------------------------------------------------------
(* Vocabulary of the properties *)

\* the for loop over queries has finished: best is the winner
LoopDone == pc = "loop" /\ qi > Len(queries)

\* find_album_art is running and has not yet returned
InFind == pc \in { "loop", "searching", "score", "fetching" }

QTypes(qs) == [i \in 1..Len(qs) |-> qs[i].qtype]

CountType(qs, t) == Cardinality({ i \in 1..Len(qs) : qs[i].qtype = t })

TRatio(r) == Ratio(n_title, ItTitle(r))

ARatio(r) == Ratio(n_album, ItAlbum(r))

\* one normalised artist contains the other
Related(r) ==
    \/ IsSubstring(n_artist, ItArtist(r))
    \/ IsSubstring(ItArtist(r), n_artist)

CandScore(qtype, r) ==
    Score(qtype, TRatio(r), ARatio(r), Ratio(n_artist, ItArtist(r)))

\* r passes the artist constraint and the thresholds that apply to qtype
Passes(qtype, r) ==
    /\ ~(REQUIRE_ARTIST_MATCH /\ ~Related(r))
    /\ ~(qtype # "album_only" /\ Truthy(n_title)
         /\ BelowThreshold(TRatio(r), MIN_TITLE_RATIO))
    /\ ~(qtype # "title_only" /\ Truthy(n_album)
         /\ BelowThreshold(ARatio(r), MIN_ALBUM_RATIO))

\* the first result of the current list has been scored, the second is next
FirstScored == pc = "score" /\ ri = 2

SearchFailureKinds == { "network_error", "http_error", "bad_json", "not_object" }

----------------------------------------------------------------------------
(* C1: the winner's score is the maximum over the surviving candidates *)

\* C1: while find_album_art runs, and in particular once the loop is done,
\* there is a best candidate exactly when some candidate passed the filters,
\* and its score equals the highest surviving score.
C1_WinnerHasMaxScore ==
    InFind =>
        IF max_survivor = NoScore
        THEN best = NoBest
        ELSE best # NoBest /\ RatEqual(best[1], max_survivor)

\* in the last of three or more queries a candidate has survived with a
\* score below that of the best found earlier
C1_Witness ==
    /\ FirstScored
    /\ qi = Len(queries) /\ qi >= 3
    /\ best # NoBest
    /\ Passes(queries[qi].qtype, results[1])
    /\ RatLess(CandScore(queries[qi].qtype, results[1]), best[1])

----------------------------------------------------------------------------
(* C2: album_only with prefer-album enabled and artist, album present *)

BothPresentPrefer ==
    /\ pc \in { "loop", "searching", "score" }
    /\ PREFER_ALBUM_WHEN_NO_ARTIST
    /\ Truthy(n_artist)
    /\ Truthy(n_album)

\* C2 as claimed: with prefer-album enabled and normalised artist and album
\* non-empty, the query list holds album_only twice.
C2_AlbumOnlyTwice ==
    BothPresentPrefer => CountType(queries, "album_only") = 2

\* C2 as amended: in that case the query list holds album_only exactly once,
\* as its last query.
C2_AlbumOnlyOnce ==
    BothPresentPrefer =>
        /\ CountType(queries, "album_only") = 1
        /\ queries[Len(queries)].qtype = "album_only"

C2_Witness ==
    /\ BothPresentPrefer
    /\ LoopDone
    /\ Len(issued) = 4

----------------------------------------------------------------------------
(* C3: the artist constraint *)

\* C3: with REQUIRE_ARTIST_MATCH enabled, the running best (and so the
\* winner) is never a candidate whose normalised artist has no substring
\* relation with the normalised query artist.
C3_UnrelatedArtistNeverBest ==
    (InFind /\ REQUIRE_ARTIST_MATCH /\ best # NoBest) => Related(best[2])

\* a candidate with perfect title and album but an unrelated artist has been
\* scored and is not the best
C3_Witness ==
    /\ FirstScored
    /\ REQUIRE_ARTIST_MATCH
    /\ ~Related(results[1])
    /\ RatEqual(TRatio(results[1]), <<1, 1>>)
    /\ RatEqual(ARatio(results[1]), <<1, 1>>)
    /\ best = NoBest

----------------------------------------------------------------------------
(* C4: the title threshold *)

TitleBelow(qtype, r) ==
    /\ qtype # "album_only"
    /\ Truthy(n_title)
    /\ BelowThreshold(TRatio(r), MIN_TITLE_RATIO)

\* C4: scoring a candidate of a query that is not album_only, with a
\* non-empty query title and a title ratio below MIN_TITLE_RATIO, leaves the
\* running best unchanged.
C4_LowTitleRejected ==
    [][ (pc = "score" /\ TitleBelow(queries[qi].qtype, results[ri]))
          => best' = best ]_vars

\* such a candidate, which passes the artist and album filters, has been
\* scored after an earlier query found a best
C4_Witness ==
    /\ FirstScored
    /\ TitleBelow(queries[qi].qtype, results[1])
    /\ ~(REQUIRE_ARTIST_MATCH /\ ~Related(results[1]))
    /\ ~BelowThreshold(ARatio(results[1]), MIN_ALBUM_RATIO)
    /\ best # NoBest
    /\ best[2] # results[1]

----------------------------------------------------------------------------
(* C5: a failed search *)

----------------------------------------------------------------------------
(* C6: the sequence of queries *)

\* the sequence the claim describes
ExpectedTypes(hasArtist, hasTitle, hasAlbum, prefer) ==
    When(hasArtist /\ hasTitle, "artist_title")
    \o When(hasArtist /\ hasAlbum, "artist_album")
    \o When(~hasArtist /\ hasAlbum /\ prefer, "album_only")
    \o When(hasTitle, "title_only")
    \o When(hasAlbum /\ (hasArtist \/ ~prefer), "album_only")

\* C6: the query types are the claimed subsequence for the fields present;
\* the searches issued are a prefix of it, all of it once the loop is done;
\* a search is sent only when the previous one has returned and its results
\* are consumed; a lone title gives exactly [title_only]; album_only comes
\* before title_only only without artist and with prefer-album enabled.
C6_QuerySequence ==
    pc \in { "loop", "searching", "score" } =>
        LET types == QTypes(queries)
        IN  /\ types = ExpectedTypes(Truthy(n_artist), Truthy(n_title),
                                     Truthy(n_album), PREFER_ALBUM_WHEN_NO_ARTIST)
            /\ Len(issued) <= Len(types)
            /\ issued = SubSeq(types, 1, Len(issued))
            /\ Len(issued) = (IF pc = "loop" THEN qi - 1 ELSE qi)
            /\ (pc # "score" => results = <<>>)
            /\ (LoopDone => issued = types)
            /\ (~Truthy(n_artist) /\ ~Truthy(n_album) /\ Truthy(n_title)
                  => types = <<"title_only">>)
            /\ \A i, j \in 1..Len(types) :
                  (i < j /\ types[i] = "album_only" /\ types[j] = "title_only")
                      => (~Truthy(n_artist) /\ PREFER_ALBUM_WHEN_NO_ARTIST)

\* album_only was searched before title_only, and the loop is done
C6_Witness ==
    /\ LoopDone
    /\ issued = <<"album_only", "title_only">>

----------------------------------------------------------------------------
(* C7: no surviving candidate *)

\* C7: a download is only ever requested after some candidate survived, and
\* when the loop ends without a survivor (also with no query at all) the
\* call returns False with no download requested.
C7_NoSurvivorNoFetch ==
    /\ []((InFind /\ max_survivor = NoScore) => (pc # "fetching" /\ fetches = 0))
    /\ [][ (LoopDone /\ max_survivor = NoScore /\ pc' # pc) =>
              (pc' = "idle" /\ ret' = "False" /\ fetches' = 0) ]_vars

\* four queries were searched and nothing survived
C7_Witness ==
    /\ LoopDone
    /\ Len(issued) = 4
    /\ max_survivor = NoScore
    /\ outcome = "ok"

----------------------------------------------------------------------------
(* C8: update_art_from_meta returning False *)

\* C8: when update_art_from_meta has returned False the artwork file,
\* _latest_meta and _last_update_ts are what they were when it was called;
\* a message whose state is neither playing nor paused returns at once and
\* never changes them.
C8_FalseLeavesStateUnchanged ==
    /\ (ret = "False" => Snapshot = pre)
    /\ ((meta.set /\ meta.state \notin { "playing", "paused" }) =>
            (pc = "idle" /\ ret # "True" /\ Snapshot = pre))

\* the first message updated the artwork, the second call returned False
C8_Witness ==
    /\ pc = "idle"
    /\ ret = "False"
    /\ msgs = 2
    /\ albumart # Placeholder
    /\ latest_meta.set

----------------------------------------------------------------------------
(* C9: ties keep the earlier candidate *)

\* C9: a scoring step changes a best that exists only to a candidate with a
\* strictly greater score, whatever the score of the best, zero included.
C9_ReplacedOnlyByGreater ==
    [][ (pc = "score" /\ best # NoBest /\ best' # best) =>
           (best' # NoBest /\ RatGreater(best'[1], best[1])) ]_vars

\* the best has score 0; another candidate survived with score 0 and the
\* earlier one is still the best
C9_Witness ==
    /\ FirstScored
    /\ best # NoBest
    /\ best[1][1] = 0
    /\ best[2] # results[1]
    /\ Passes(queries[qi].qtype, results[1])
    /\ RatEqual(CandScore(queries[qi].qtype, results[1]), best[1])

----------------------------------------------------------------------------
(* C10: what an HTTP reader can observe *)

\* the state-level part: the served file is complete and at least as new as
\* the recorded metadata and timestamp
FileNeverOlderThanRecorded ==
    /\ albumart.complete
    /\ albumart.content[1] >= latest_meta.by
    /\ latest_meta.by >= last_update_ts.by

\* C10 as claimed: the served file is always complete and never older than
\* the update recorded in _latest_meta and _last_update_ts, and no
\* /albumart.jpg response carries the ETag of update k with artwork from an
\* earlier update.
C10_NoStaleArtWithNewETag ==
    /\ albumart.complete
    /\ albumart.content[1] >= latest_meta.by
    /\ latest_meta.by >= last_update_ts.by
    /\ (response.kind = "art" =>
            /\ response.body.complete
            /\ response.body.content[1] >= response.ts_by)

====
